---- MODULE Spec2Model ----
(***************************************************************************)
(* The two MCP clients, src/mcp_llm_client.py and src/mcp_http_client.py:   *)
(* main, connect_to_server, interactive_mode, process_query (the LLM        *)
(* client), call_greet and call_calculate (the HTTP client) and cleanup, as *)
(* one thread of control whose program counter rests only at the awaits and *)
(* at input(). A run is a run of one of the two programs. The remote        *)
(* session, the completion service and the terminal are environments: every *)
(* await may return any value of a small set or raise.                      *)
(***************************************************************************)
EXTENDS Integers, Sequences, FiniteSets, TLC

\* ---------------------------------------------------------------- bounds
\* method calls made by a caller that drives one client object itself
MaxApiCalls == 3
\* input() calls of one run of interactive_mode
MaxPrompts == 2
\* tool calls carried by one completion response
MaxCalls == 2
\* the server's calculate is called with operands in -MaxOperand..MaxOperand
MaxOperand == 2

\* ---------------------------------------------------------------- values
\* Python's None, for a field that holds a name or None
NoneVal == "None"

\* An Optional[str] is <<>> (None) or <<s>>; a str that the program builds by
\* joining is the sequence of its pieces ("" is <<>>).
None_ == <<>>
Some(s) == <<s>>

SYSTEM_PROMPT == "You are a helpful assistant that can use tools to help users accomplish tasks."
KEY_ERROR == "Error: OPENAI_API_KEY environment variable not set. Please create a .env file with your API key."

\* os.environ.get("OPENAI_API_KEY"): unset (None), set to "", or set to a key
ApiKeys == {None_, Some(""), Some("sk-key")}

\* mutant: the test `x is None` in place of `not x`
Falsy_NoneOnly(x) == x = None_

\* `not x` for an Optional[str]
Falsy(x) == x = None_ \/ x = Some("")

\* mutant: str(x) in place of `x or ""`
OrEmpty_Str(x) == IF x = None_ THEN "None" ELSE x[1]

\* `x or ""`
OrEmpty(x) == IF x = None_ THEN "" ELSE x[1]

\* ---------------------------------------------------------------- JSON
\* The text of a JSON object: whether it parses, whether it is written with
\* json.dumps' default separators (", " and ": "), and its members in order.
\* The parsed value is a Python dict: the members in first-insertion order,
\* a repeated key keeping its first position and its last value.
JsonText(ok, canon, pairs) == [ok |-> ok, canon |-> canon, pairs |-> pairs]

RECURSIVE DictSet(_, _, _)
DictSet(d, k, v) ==
    IF d = <<>> THEN << <<k, v>> >>
    ELSE IF d[1][1] = k THEN << <<k, v>> >> \o Tail(d)
    ELSE << d[1] >> \o DictSet(Tail(d), k, v)

RECURSIVE DictOf(_, _)
DictOf(pairs, acc) ==
    IF pairs = <<>> THEN acc
    ELSE DictOf(Tail(pairs), DictSet(acc, pairs[1][1], pairs[1][2]))

\* json.loads raises json.JSONDecodeError on a text that does not parse
json_loads_raises(text) == ~text.ok
json_loads(text) == DictOf(text.pairs, <<>>)
json_dumps(d) == JsonText(TRUE, TRUE, d)

\* ---------------------------------------------------------------- tools
RECURSIVE SeqsUpTo(_, _)
SeqsUpTo(S, n) ==
    IF n = 0 THEN { <<>> }
    ELSE LET shorter == SeqsUpTo(S, n - 1)
         IN shorter \cup { Append(s, x) : s \in { t \in shorter : Len(t) = n - 1 }, x \in S }

GreetTool ==
    [name |-> "greet", description |-> "Greet a person by name.",
     inputSchema |-> "schema:name"]
CalculateTool ==
    [name |-> "calculate", description |-> "Perform a basic calculation.",
     inputSchema |-> "schema:operation,a,b"]

\* what list_tools may return: nothing, the two tools in either order, and a
\* listing that repeats a name
Listings ==
    { <<>>, <<GreetTool, CalculateTool>>, <<CalculateTool, GreetTool>>,
      <<GreetTool, GreetTool>> }

\* result.content of a CallToolResult, and str() of it
ResultContents == { <<>>, <<"5">> }
Str(content) == IF content = <<>> THEN "[]" ELSE "[TextContent(text='5')]"

\* a tool call of a completion response
ToolCall(id, name, arguments) ==
    [id |-> id, type |-> "function",
     function |-> [name |-> name, arguments |-> arguments]]

ToolCallMenu ==
    { ToolCall("call_1", "greet", JsonText(TRUE, TRUE, << <<"name", "Bob">> >>)),
      ToolCall("call_2", "calculate",
               JsonText(TRUE, FALSE, << <<"a", "2">>, <<"b", "3">>, <<"a", "4">> >>)),
      ToolCall("call_1", "calculate", JsonText(FALSE, FALSE, <<>>)) }

\* response.choices[0].message: content is Optional[str]; tool_calls is None
\* (here <<>> with has_calls FALSE), an empty list, or a list of tool calls
Contents == { None_, Some(""), Some("A") }
Responses ==
    { r \in [content : Contents, has_calls : BOOLEAN,
             tool_calls : SeqsUpTo(ToolCallMenu, MaxCalls)] :
        r.has_calls \/ r.tool_calls = <<>> }

\* what the completion service may return to the request without tool specs;
\* its text is told apart from the first response's
FinalContents == { None_, Some(""), Some("B") }
FinalResponses ==
    { r \in [content : FinalContents, has_calls : BOOLEAN,
             tool_calls : SeqsUpTo(ToolCallMenu, 1)] :
        r.has_calls \/ r.tool_calls = <<>> }

\* ---------------------------------------------------------------- terminal
\* A line typed at input(): optional white space, a text without outer white
\* space (possibly empty), optional white space.
Lines ==
    { [lead |-> FALSE, text |-> "exit", trail |-> FALSE],
      [lead |-> TRUE, text |-> "Exit", trail |-> TRUE],
      [lead |-> FALSE, text |-> "add 2 and 3", trail |-> FALSE],
      [lead |-> TRUE, text |-> "", trail |-> FALSE] }

\* str.strip() and str.lower()
Strip(line) == line.text
Lower(s) == IF s \in {"Exit", "EXIT"} THEN "exit" ELSE s

\* A line typed at the HTTP client's prompt: optional white space, words
\* separated by white space, optional white space.
HttpLines ==
    { [lead |-> FALSE, words |-> <<"exit">>, trail |-> FALSE],
      [lead |-> TRUE, words |-> <<"EXIT">>, trail |-> TRUE],
      [lead |-> TRUE, words |-> <<>>, trail |-> FALSE],
      [lead |-> FALSE, words |-> <<"greet">>, trail |-> FALSE],
      [lead |-> FALSE, words |-> <<"greet", "Ada", "Lovelace">>, trail |-> TRUE],
      [lead |-> FALSE, words |-> <<"calc", "add", "1">>, trail |-> FALSE],
      [lead |-> FALSE, words |-> <<"calc", "add", "x", "2">>, trail |-> FALSE],
      [lead |-> FALSE, words |-> <<"calc", "divide", "1", "0">>, trail |-> FALSE],
      [lead |-> FALSE, words |-> <<"help">>, trail |-> FALSE] }

\* command.strip().split(): the words
Split(line) == line.words

\* command.lower() == "exit"
IsExitCommand(line) == Len(line.words) = 1 /\ Lower(line.words[1]) = "exit"

\* " ".join(parts), as the sequence of its pieces
RECURSIVE JoinSpace(_)
JoinSpace(parts) ==
    IF parts = <<>> THEN <<>>
    ELSE IF Len(parts) = 1 THEN parts
    ELSE <<parts[1], " ">> \o JoinSpace(Tail(parts))

\* float(word): raises ValueError on a word that is no number
float_raises(word) == word \notin {"0", "1", "2"}
float(word) == IF word = "0" THEN "0.0" ELSE IF word = "1" THEN "1.0" ELSE "2.0"

\* ---------------------------------------------------------------- exceptions
\* The classes `except Exception` catches; asyncio.CancelledError and
\* KeyboardInterrupt derive from BaseException only.
ExceptionClasses ==
    {"RuntimeError", "ConnectionError", "APIError", "McpError",
     "JSONDecodeError", "EOFError", "ExitError"}
IsException(kind) == kind \in ExceptionClasses

\* ---------------------------------------------------------------- state
VARIABLES
    program,         \* "llm" or "http": which client this run is
    httpLog,         \* call_tool events of the HTTP client's current command
    pc,              \* where the thread of control rests
    apiKey,          \* os.environ.get("OPENAI_API_KEY")
    session,         \* self.session
    available_tools, \* self.available_tools
    exit_stack,      \* the contexts self.exit_stack has entered, oldest first
    acquired,        \* per resource, how often its context was entered
    released,        \* per resource, how often its context was exited
    cleanupRuns,     \* calls of cleanup()
    connectLog,      \* session operations issued by connect_to_server
    exc,             \* the exception propagating out of main's try block
    prompts,         \* calls of input()
    stdin,           \* "open", or "eof" once input has reached end-of-input
    printed,         \* the last thing interactive_mode printed
    outcome,         \* how the last process_query call ended
    replEnd,         \* how interactive_mode's loop was left
    query,           \* process_query's argument
    messages,        \* process_query's local `messages`
    final_text,      \* process_query's local `final_text`
    tool_calls,      \* process_query's local `tool_calls`
    message,         \* response.choices[0].message of the first completion
    final_message,   \* final_response.choices[0].message
    idx,             \* position of the for loop in batch
    completions,     \* requests sent to the completion service by this query
    toolLog,         \* call_tool events of this query
    sentTools,       \* <<openai_tools>> of the latest first request, <<>> before it
    served,          \* the server's latest tool execution, <<>> before it
    apiCalls         \* method calls made by a caller that drives the client itself

connVars == <<session, available_tools, exit_stack, acquired, released, cleanupRuns, connectLog>>
replVars == <<prompts, stdin, printed, outcome, replEnd>>
queryVars == <<query, messages, message, final_message, final_text, tool_calls, idx,
              completions, toolLog>>
auxVars == <<sentTools, served, apiCalls>>
vars == <<program, httpLog, pc, apiKey, exc, connVars, replVars, queryVars, auxVars>>

Resources == {"transport", "session"}

NoOutcome == [kind |-> "none", value |-> <<>>, err |-> NoneVal]
Returned(value) == [kind |-> "returned", value |-> value, err |-> NoneVal]
Raised(kind) == [kind |-> "raised", value |-> <<>>, err |-> kind]

\* a message variable no response has been assigned to
NoMessage == [content |-> None_, has_calls |-> FALSE, tool_calls |-> <<>>]

Init ==
    /\ program \in {"llm", "http"}
    /\ httpLog = <<>>
    /\ pc = "main"
    /\ apiKey \in IF program = "llm" THEN ApiKeys ELSE {None_}
    /\ session = NoneVal
    /\ available_tools = <<>>
    /\ exit_stack = <<>>
    /\ acquired = [r \in Resources |-> 0]
    /\ released = [r \in Resources |-> 0]
    /\ cleanupRuns = 0
    /\ connectLog = <<>>
    /\ exc = NoneVal
    /\ prompts = 0
    /\ stdin = "open"
    /\ printed = [kind |-> "none", text |-> <<>>]
    /\ outcome = NoOutcome
    /\ replEnd = "running"
    /\ query = ""
    /\ messages = <<>>
    /\ final_text = <<>>
    /\ tool_calls = <<>>
    /\ message = NoMessage
    /\ final_message = NoMessage
    /\ idx = 0
    /\ completions = <<>>
    /\ toolLog = <<>>
    /\ sentTools = <<>>
    /\ served = <<>>
    /\ apiCalls = 0

\* ---------------------------------------------------------------- main, connect
\* main: client = MCPLLMClient(); try: await client.connect_to_server(url)
MainTry ==
    /\ pc = "main"
    /\ pc' = "await_sse_client"
    /\ UNCHANGED <<auxVars, program, httpLog, apiKey, exc, connVars, replVars, queryVars>>

\* transport = await self.exit_stack.enter_async_context(sse_client(url))
SseClientEntered ==
    /\ pc = "await_sse_client"
    /\ exit_stack' = Append(exit_stack, "transport")
    /\ acquired' = [acquired EXCEPT !["transport"] = @ + 1]
    /\ pc' = "await_client_session"
    /\ UNCHANGED <<auxVars, program, httpLog, apiKey, exc, session, available_tools, released, cleanupRuns,
                   connectLog, replVars, queryVars>>

\* self.session = await self.exit_stack.enter_async_context(ClientSession(..));
\* then await self.session.initialize() is issued
ClientSessionEntered ==
    /\ pc = "await_client_session"
    /\ exit_stack' = Append(exit_stack, "session")
    /\ acquired' = [acquired EXCEPT !["session"] = @ + 1]
    /\ session' = "session"
    /\ connectLog' = Append(connectLog, "initialize")
    /\ pc' = "await_initialize"
    /\ UNCHANGED <<auxVars, program, httpLog, apiKey, exc, available_tools, released, cleanupRuns,
                   replVars, queryVars>>

\* initialize() returned; response = await self.session.list_tools() is issued
InitializeReturns ==
    /\ pc = "await_initialize"
    /\ connectLog' = Append(connectLog, "list_tools")
    /\ pc' = "await_list_tools"
    /\ UNCHANGED <<auxVars, program, httpLog, apiKey, exc, session, available_tools, exit_stack, acquired,
                   released, cleanupRuns, replVars, queryVars>>

\* self.available_tools = response.tools (the HTTP client keeps the listing in
\* a local only); list_resources() is issued
ListToolsReturns ==
    /\ pc = "await_list_tools"
    /\ \E listing \in Listings :
          available_tools' = IF program = "llm" THEN listing ELSE available_tools
    /\ connectLog' = Append(connectLog, "list_resources")
    /\ pc' = "await_list_resources"
    /\ UNCHANGED <<auxVars, program, httpLog, apiKey, exc, session, exit_stack, acquired, released,
                   cleanupRuns, replVars, queryVars>>

\* connect_to_server returns; main awaits interactive_mode, which prints its
\* banner and calls input()
ListResourcesReturns ==
    /\ pc = "await_list_resources"
    /\ prompts' = prompts + 1
    /\ pc' = "input"
    /\ UNCHANGED <<auxVars, program, httpLog, apiKey, exc, connVars, stdin, printed, outcome, replEnd, queryVars>>

ConnectAwaits ==
    {"await_sse_client", "await_client_session", "await_initialize",
     "await_list_tools", "await_list_resources"}

\* any await of connect_to_server raises: the error leaves main's try block
ConnectRaises ==
    /\ pc \in ConnectAwaits
    /\ exc' = "ConnectionError"
    /\ pc' = "main_finally"
    /\ UNCHANGED <<auxVars, program, httpLog, apiKey, connVars, replVars, queryVars>>

\* mutant: cleanup() called after the try block instead of in a finally
MainFinally_SkipsOnError ==
    /\ pc = "main_finally"
    /\ IF exc = NoneVal
       THEN cleanupRuns' = cleanupRuns + 1 /\ pc' = "aclose"
       ELSE cleanupRuns' = cleanupRuns /\ pc' = "exited"
    /\ UNCHANGED <<auxVars, program, httpLog, apiKey, exc, session, available_tools, exit_stack, acquired,
                   released, connectLog, replVars, queryVars>>

\* main's finally: await client.cleanup(), which awaits exit_stack.aclose()
MainFinally ==
    /\ pc = "main_finally"
    /\ cleanupRuns' = cleanupRuns + 1
    /\ pc' = "aclose"
    /\ UNCHANGED <<auxVars, program, httpLog, apiKey, exc, session, available_tools, exit_stack, acquired,
                   released, connectLog, replVars, queryVars>>

\* mutant: aclose() exiting the contexts oldest first
AcloseExit_Fifo ==
    /\ pc = "aclose"
    /\ exit_stack # <<>>
    /\ released' = [released EXCEPT ![exit_stack[1]] = @ + 1]
    /\ exit_stack' = Tail(exit_stack)
    /\ \E raises \in BOOLEAN : exc' = IF raises THEN "ExitError" ELSE exc
    /\ UNCHANGED <<auxVars, program, httpLog, pc, apiKey, session, available_tools, acquired, cleanupRuns,
                   connectLog, replVars, queryVars>>

\* aclose() exits the entered contexts, newest first, each once; an exit that
\* raises does not stop the unwinding, its error replaces the pending one
AcloseExit ==
    /\ pc = "aclose"
    /\ exit_stack # <<>>
    /\ LET r == exit_stack[Len(exit_stack)]
       IN /\ released' = [released EXCEPT ![r] = @ + 1]
          /\ exit_stack' = SubSeq(exit_stack, 1, Len(exit_stack) - 1)
    /\ \E raises \in BOOLEAN : exc' = IF raises THEN "ExitError" ELSE exc
    /\ UNCHANGED <<auxVars, program, httpLog, pc, apiKey, session, available_tools, acquired, cleanupRuns,
                   connectLog, replVars, queryVars>>

\* aclose() has nothing left to exit: cleanup returns and main ends, normally
\* when no exception is pending and with that exception otherwise
AcloseDone ==
    /\ pc = "aclose"
    /\ exit_stack = <<>>
    /\ pc' = "exited"
    /\ UNCHANGED <<auxVars, program, httpLog, apiKey, exc, connVars, replVars, queryVars>>

\* ---------------------------------------------------------------- transcript
\* One element of `messages`; a key the dict does not have is None_ / <<>>.
Msg(role, content, calls, call_id) ==
    [role |-> role, content |-> content, tool_calls |-> calls, tool_call_id |-> call_id]

\* mutant: the user's query placed before the system preamble
Seed_UserFirst(q) ==
    << Msg("user", Some(q), <<>>, None_),
       Msg("system", Some(SYSTEM_PROMPT), <<>>, None_) >>

\* messages = [{"role": "system", ...}, {"role": "user", "content": query}]
Seed(q) ==
    << Msg("system", Some(SYSTEM_PROMPT), <<>>, None_),
       Msg("user", Some(q), <<>>, None_) >>

\* mutant: the echo carries the tool's name where the call's id belongs
EchoMessage_NameAsId(tool_call, tool_name, tool_args) ==
    Msg("assistant", None_,
        << ToolCall(tool_name, tool_name, json_dumps(tool_args)) >>, None_)

\* the assistant message appended for one executed tool call
EchoMessage(tool_call, tool_name, tool_args) ==
    Msg("assistant", None_,
        << ToolCall(tool_call.id, tool_name, json_dumps(tool_args)) >>, None_)

\* the tool message appended for one executed tool call
ToolMessage(tool_call, content) ==
    Msg("tool", Some(Str(content)), <<>>, Some(tool_call.id))

\* mutant: the tool message alone is appended
Appended_NoEcho(tool_call, tool_name, tool_args, content) ==
    << ToolMessage(tool_call, content) >>

\* what one executed tool call appends to `messages`
Appended(tool_call, tool_name, tool_args, content) ==
    << EchoMessage(tool_call, tool_name, tool_args), ToolMessage(tool_call, content) >>

\* mutant: the loop walks the list backwards
LoopItem_Reversed(batch, i) == batch[Len(batch) + 1 - i]

\* `for tool_call in message.tool_calls`: the item of the i-th turn
LoopItem(batch, i) == batch[i]

\* mutant: the function specs built from the listing back to front
OpenAITools_Reversed(tools) ==
    [i \in 1..Len(tools) |->
        [type |-> "function",
         function |-> [name |-> tools[Len(tools) + 1 - i].name,
                       description |-> tools[Len(tools) + 1 - i].description,
                       parameters |-> tools[Len(tools) + 1 - i].inputSchema]]]

\* openai_tools: one function spec per descriptor, in the listing's order
OpenAITools(tools) ==
    [i \in 1..Len(tools) |->
        [type |-> "function",
         function |-> [name |-> tools[i].name,
                       description |-> tools[i].description,
                       parameters |-> tools[i].inputSchema]]]

\* the two completion requests (FinalRequest_WithTools is a mutant: the final
\* request sent like the first)
FirstRequest(msgs, tools) ==
    [model |-> "gpt-4", messages |-> msgs, has_tools |-> TRUE, tools |-> tools,
     tool_choice |-> "auto"]
FinalRequest_WithTools(msgs) ==
    [model |-> "gpt-4", messages |-> msgs, has_tools |-> TRUE, tools |-> <<>>,
     tool_choice |-> "auto"]
FinalRequest(msgs) ==
    [model |-> "gpt-4", messages |-> msgs, has_tools |-> FALSE, tools |-> <<>>,
     tool_choice |-> NoneVal]

\* "\n".join(text for text in final_text if text), as the sequence of its pieces
RECURSIVE NonEmpty(_)
NonEmpty(texts) ==
    IF texts = <<>> THEN <<>>
    ELSE IF texts[1] = "" THEN NonEmpty(Tail(texts))
    ELSE <<texts[1]>> \o NonEmpty(Tail(texts))

RECURSIVE JoinNewline(_)
JoinNewline(texts) ==
    IF texts = <<>> THEN <<>>
    ELSE IF Len(texts) = 1 THEN texts
    ELSE <<texts[1], "\n">> \o JoinNewline(Tail(texts))

\* mutant: the join without the `if text` filter
JoinTexts_KeepsEmpty(texts) == JoinNewline(texts)

JoinTexts(texts) == JoinNewline(NonEmpty(texts))

ToolEvent(ev, i, name, args) == [ev |-> ev, idx |-> i, name |-> name, args |-> args]

\* ---------------------------------------------------------------- the REPL's handlers
\* mutant: interactive_mode without its `except Exception` clause
ReplExcept_NoGenericHandler(kind) ==
    IF kind = "KeyboardInterrupt"
    THEN /\ replEnd' = "interrupt"
         /\ pc' = "main_finally"
         /\ UNCHANGED <<exc, printed, prompts>>
    ELSE /\ replEnd' = "escaped"
         /\ exc' = kind
         /\ pc' = "main_finally"
         /\ UNCHANGED <<printed, prompts>>

\* mutant: an interrupt treated like any error: printed, and the loop goes on
ReplExcept_SwallowsInterrupt(kind) ==
    IF IsException(kind) \/ kind = "KeyboardInterrupt"
    THEN /\ printed' = [kind |-> "error", text |-> <<"Error: ", kind>>]
         /\ prompts' = prompts + 1
         /\ pc' = "input"
         /\ UNCHANGED <<exc, replEnd>>
    ELSE /\ replEnd' = "escaped"
         /\ exc' = kind
         /\ pc' = "main_finally"
         /\ UNCHANGED <<printed, prompts>>

\* interactive_mode's except clauses, then the next turn of `while True`
ReplExcept(kind) ==
    IF IsException(kind)
    THEN /\ printed' = [kind |-> "error", text |-> <<"Error: ", kind>>]
         /\ prompts' = prompts + 1
         /\ pc' = "input"
         /\ UNCHANGED <<exc, replEnd>>
    ELSE IF kind = "KeyboardInterrupt"
    THEN /\ replEnd' = "interrupt"
         /\ pc' = "main_finally"
         /\ UNCHANGED <<exc, printed, prompts>>
    ELSE /\ replEnd' = "escaped"
         /\ exc' = kind
         /\ pc' = "main_finally"
         /\ UNCHANGED <<printed, prompts>>

\* process_query raises `kind` into interactive_mode
QueryRaises(kind) ==
    /\ outcome' = Raised(kind)
    /\ pc' = "query_done"
    /\ UNCHANGED <<exc, prompts, stdin, printed, replEnd>>

\* process_query returns `value` to interactive_mode
QueryReturns(value) ==
    /\ outcome' = Returned(value)
    /\ pc' = "query_done"
    /\ UNCHANGED <<exc, prompts, stdin, printed, replEnd>>

\* ---------------------------------------------------------------- process_query
\* The for loop at position i over the first response's tool calls, and the
\* code after it, up to the next await, return or raise.
ContinueLoop(i, batch, texts, msgs, calls, comps, tlog) ==
    /\ messages' = msgs
    /\ tool_calls' = calls
    /\ idx' = i
    /\ IF i <= Len(batch)
       THEN LET tool_call == LoopItem(batch, i)
            IN IF json_loads_raises(tool_call.function.arguments)
               THEN /\ completions' = comps
                    /\ toolLog' = tlog
                    /\ QueryRaises("JSONDecodeError")
               ELSE /\ completions' = comps
                    /\ toolLog' = Append(tlog,
                          ToolEvent("call", i, tool_call.function.name,
                                    json_loads(tool_call.function.arguments)))
                    /\ pc' = "await_tool"
                    /\ UNCHANGED <<exc, replVars>>
       ELSE IF calls # <<>>
       THEN /\ completions' = Append(comps, FinalRequest(msgs))
            /\ toolLog' = tlog
            /\ pc' = "await_final"
            /\ UNCHANGED <<exc, replVars>>
       ELSE /\ completions' = comps
            /\ toolLog' = tlog
            /\ QueryReturns(JoinTexts(texts))

\* mutant: the credential check made before the session check
ProcessQueryCall_KeyFirst(q) ==
    /\ query' = q
    /\ message' = NoMessage
    /\ final_message' = NoMessage
    /\ final_text' = <<>>
    /\ tool_calls' = <<>>
    /\ idx' = 0
    /\ toolLog' = <<>>
    /\ IF Falsy(apiKey)
       THEN /\ messages' = <<>>
            /\ completions' = <<>>
            /\ UNCHANGED sentTools
            /\ QueryReturns(<<KEY_ERROR>>)
       ELSE IF session = NoneVal
       THEN /\ messages' = <<>>
            /\ completions' = <<>>
            /\ UNCHANGED sentTools
            /\ QueryRaises("RuntimeError")
       ELSE /\ messages' = Seed(q)
            /\ completions' = << FirstRequest(Seed(q), OpenAITools(available_tools)) >>
            /\ sentTools' = << OpenAITools(available_tools) >>
            /\ pc' = "await_first"
            /\ outcome' = NoOutcome
            /\ UNCHANGED <<exc, prompts, stdin, printed, replEnd>>

\* process_query(q) up to its first await
ProcessQueryCall(q) ==
    /\ query' = q
    /\ message' = NoMessage
    /\ final_message' = NoMessage
    /\ final_text' = <<>>
    /\ tool_calls' = <<>>
    /\ idx' = 0
    /\ toolLog' = <<>>
    /\ IF session = NoneVal
       THEN /\ messages' = <<>>
            /\ completions' = <<>>
            /\ UNCHANGED sentTools
            /\ QueryRaises("RuntimeError")
       ELSE IF Falsy(apiKey)
       THEN /\ messages' = <<>>
            /\ completions' = <<>>
            /\ UNCHANGED sentTools
            /\ QueryReturns(<<KEY_ERROR>>)
       ELSE /\ messages' = Seed(q)
            /\ completions' = << FirstRequest(Seed(q), OpenAITools(available_tools)) >>
            /\ sentTools' = << OpenAITools(available_tools) >>
            /\ pc' = "await_first"
            /\ outcome' = NoOutcome
            /\ UNCHANGED <<exc, prompts, stdin, printed, replEnd>>

\* the first completion returns
FirstCompletionReturns ==
    /\ pc = "await_first"
    /\ \E r \in Responses :
          /\ message' = r
          /\ final_text' = << OrEmpty(r.content) >>
          /\ IF r.tool_calls # <<>>
             THEN ContinueLoop(1, r.tool_calls, << OrEmpty(r.content) >>, messages, <<>>,
                               completions, toolLog)
             ELSE /\ QueryReturns(JoinTexts(<< OrEmpty(r.content) >>))
                  /\ UNCHANGED <<messages, tool_calls, idx, completions, toolLog>>
    /\ UNCHANGED <<auxVars, program, httpLog, apiKey, connVars, query, final_message>>

\* session.call_tool returns for the tool call at idx
ToolReturns ==
    /\ pc = "await_tool"
    /\ \E content \in ResultContents :
          LET tool_call == LoopItem(message.tool_calls, idx)
              tool_name == tool_call.function.name
              tool_args == json_loads(tool_call.function.arguments)
          IN ContinueLoop(idx + 1, message.tool_calls, final_text,
                 messages \o Appended(tool_call, tool_name, tool_args, content),
                 Append(tool_calls,
                        [name |-> tool_name, args |-> tool_args, result |-> content]),
                 completions,
                 Append(toolLog, ToolEvent("return", idx, tool_name, tool_args)))
    /\ UNCHANGED <<auxVars, program, httpLog, apiKey, connVars, query, message, final_message, final_text>>

\* mutant: the error of call_tool is swallowed and the loop goes on
ToolRaises_Continues ==
    /\ pc = "await_tool"
    /\ LET tool_call == LoopItem(message.tool_calls, idx)
           tool_name == tool_call.function.name
           tool_args == json_loads(tool_call.function.arguments)
       IN ContinueLoop(idx + 1, message.tool_calls, final_text,
              messages \o Appended(tool_call, tool_name, tool_args, <<>>),
              Append(tool_calls,
                     [name |-> tool_name, args |-> tool_args, result |-> <<>>]),
              completions,
              Append(toolLog, ToolEvent("raise", idx, tool_name, tool_args)))
    /\ UNCHANGED <<auxVars, program, httpLog, apiKey, connVars, query, message, final_message, final_text>>

\* session.call_tool raises for the tool call at idx
ToolRaises ==
    /\ pc = "await_tool"
    /\ LET tool_call == LoopItem(message.tool_calls, idx)
       IN toolLog' = Append(toolLog,
              ToolEvent("raise", idx, tool_call.function.name,
                        json_loads(tool_call.function.arguments)))
    /\ QueryRaises("McpError")
    /\ UNCHANGED <<auxVars, program, httpLog, apiKey, connVars, query, messages, message, final_message,
                   final_text, tool_calls, idx, completions>>

\* mutant: process_query ends by emptying the stored descriptor list
FinalCompletionReturns_DropsCatalog ==
    /\ pc = "await_final"
    /\ \E r \in FinalResponses :
          /\ final_message' = r
          /\ final_text' = Append(final_text, OrEmpty(r.content))
          /\ QueryReturns(JoinTexts(Append(final_text, OrEmpty(r.content))))
    /\ available_tools' = <<>>
    /\ UNCHANGED <<auxVars, program, httpLog, apiKey, session, exit_stack, acquired, released,
                   cleanupRuns, connectLog, query, messages, message, tool_calls, idx,
                   completions, toolLog>>

\* the final completion returns
FinalCompletionReturns ==
    /\ pc = "await_final"
    /\ \E r \in FinalResponses :
          /\ final_message' = r
          /\ final_text' = Append(final_text, OrEmpty(r.content))
          /\ QueryReturns(JoinTexts(Append(final_text, OrEmpty(r.content))))
    /\ UNCHANGED <<auxVars, program, httpLog, apiKey, connVars, query, messages, message, tool_calls, idx,
                   completions, toolLog>>

\* a completion request raises
CompletionRaises ==
    /\ pc \in {"await_first", "await_final"}
    /\ QueryRaises("APIError")
    /\ UNCHANGED <<auxVars, program, httpLog, apiKey, connVars, queryVars>>

\* an interrupt reaches the program while process_query is suspended: the await
\* raises asyncio.CancelledError or KeyboardInterrupt, as the runtime delivers it
InterruptInFlight ==
    /\ pc \in {"await_first", "await_tool", "await_final"}
    /\ \E kind \in {"CancelledError", "KeyboardInterrupt"} : QueryRaises(kind)
    /\ UNCHANGED <<auxVars, program, httpLog, apiKey, connVars, queryVars>>

\* ---------------------------------------------------------------- interactive_mode
\* input() returns a line
InputReturns ==
    /\ program = "llm"
    /\ pc = "input"
    /\ stdin = "open"
    /\ prompts <= MaxPrompts
    /\ \E line \in Lines :
          LET q == Strip(line)
          IN IF Lower(q) = "exit"
             THEN /\ replEnd' = "exit"
                  /\ pc' = "main_finally"
                  /\ UNCHANGED <<exc, prompts, stdin, printed, outcome, queryVars,
                                 sentTools>>
             ELSE ProcessQueryCall(q)
    /\ UNCHANGED <<served, apiCalls, program, httpLog, apiKey, connVars>>

\* `await self.process_query(query)` has ended: the response is printed, or the
\* error goes to the except clauses; process_query's locals are gone
ReplAfterQuery ==
    /\ pc = "query_done"
    /\ IF outcome.kind = "returned"
       THEN /\ printed' = [kind |-> "response", text |-> outcome.value]
            /\ prompts' = prompts + 1
            /\ pc' = "input"
            /\ UNCHANGED <<exc, replEnd>>
       ELSE ReplExcept(outcome.err)
    /\ outcome' = NoOutcome
    /\ query' = ""
    /\ messages' = <<>>
    /\ message' = NoMessage
    /\ final_message' = NoMessage
    /\ final_text' = <<>>
    /\ tool_calls' = <<>>
    /\ idx' = 0
    /\ completions' = <<>>
    /\ toolLog' = <<>>
    /\ UNCHANGED <<auxVars, program, httpLog, apiKey, connVars, stdin>>

\* input() is interrupted: except KeyboardInterrupt: break
InputInterrupted ==
    /\ pc = "input"
    /\ stdin = "open"
    /\ prompts <= MaxPrompts
    /\ ReplExcept("KeyboardInterrupt")
    /\ UNCHANGED <<auxVars, program, httpLog, apiKey, connVars, stdin, outcome, queryVars>>

\* input() finds end-of-input and raises EOFError
InputEOF ==
    /\ pc = "input"
    /\ prompts <= MaxPrompts
    /\ stdin' = "eof"
    /\ ReplExcept("EOFError")
    /\ UNCHANGED <<auxVars, program, httpLog, apiKey, connVars, outcome, queryVars>>

\* ---------------------------------------------------------------- the HTTP client
\* print(...) and the next turn of the HTTP client's `while True`
HttpPrint(kind, text) ==
    /\ printed' = [kind |-> kind, text |-> text]
    /\ prompts' = prompts + 1
    /\ pc' = "input"
    /\ UNCHANGED <<exc, replEnd>>

\* call_greet / call_calculate up to the await of session.call_tool
HttpCallTool(name, args, await) ==
    IF session = NoneVal
    THEN /\ httpLog' = <<>>
         /\ ReplExcept("RuntimeError")
    ELSE /\ httpLog' = << ToolEvent("call", 1, name, args) >>
         /\ pc' = await
         /\ UNCHANGED <<exc, prompts, printed, replEnd>>

\* input() returns a command line
HttpInputReturns ==
    /\ program = "http"
    /\ pc = "input"
    /\ stdin = "open"
    /\ prompts <= MaxPrompts
    /\ \E line \in HttpLines :
          LET parts == Split(line)
          IN IF IsExitCommand(line)
             THEN /\ replEnd' = "exit"
                  /\ pc' = "main_finally"
                  /\ UNCHANGED <<exc, prompts, printed, httpLog>>
             ELSE IF parts = <<>>
             THEN /\ prompts' = prompts + 1
                  /\ pc' = "input"
                  /\ UNCHANGED <<exc, printed, replEnd, httpLog>>
             ELSE IF parts[1] = "greet"
             THEN IF Len(parts) < 2
                  THEN HttpPrint("usage", <<"Usage: greet <name>">>) /\ httpLog' = <<>>
                  ELSE HttpCallTool("greet", << <<"name", JoinSpace(Tail(parts))>> >>,
                                    "await_greet")
             ELSE IF parts[1] = "calc"
             THEN IF Len(parts) # 4
                  THEN HttpPrint("usage", <<"Usage: calc <operation> <a> <b>">>)
                       /\ httpLog' = <<>>
                  ELSE IF float_raises(parts[3]) \/ float_raises(parts[4])
                  THEN HttpPrint("error", <<"Error: a and b must be numbers">>)
                       /\ httpLog' = <<>>
                  ELSE HttpCallTool("calculate",
                                    << <<"operation", <<parts[2]>> >>,
                                       <<"a", <<float(parts[3])>> >>,
                                       <<"b", <<float(parts[4])>> >> >>,
                                    "await_calc")
             ELSE HttpPrint("unknown", <<"Unknown command: ", parts[1]>>)
                  /\ httpLog' = <<>>
    /\ UNCHANGED <<auxVars, program, apiKey, connVars, stdin, outcome, queryVars>>

HttpAwaits == {"await_greet", "await_calc"}

\* session.call_tool returns to call_greet / call_calculate: the result is printed
HttpToolReturns ==
    /\ pc \in HttpAwaits
    /\ \E content \in ResultContents :
          HttpPrint("result", <<"Result: ", Str(content)>>)
    /\ httpLog' = Append(httpLog, ToolEvent("return", 1, httpLog[1].name, httpLog[1].args))
    /\ UNCHANGED <<auxVars, program, apiKey, connVars, stdin, outcome, queryVars>>

\* session.call_tool raises: call_calculate's error is printed by the inner
\* `except Exception`, call_greet's goes to the loop's except clauses
HttpToolRaises ==
    /\ pc \in HttpAwaits
    /\ IF pc = "await_calc"
       THEN HttpPrint("error", <<"Error: ", "McpError">>)
       ELSE ReplExcept("McpError")
    /\ httpLog' = Append(httpLog, ToolEvent("raise", 1, httpLog[1].name, httpLog[1].args))
    /\ UNCHANGED <<auxVars, program, apiKey, connVars, stdin, outcome, queryVars>>

\* an interrupt reaches the HTTP client while call_tool is awaited
HttpInterruptInFlight ==
    /\ pc \in HttpAwaits
    /\ \E kind \in {"CancelledError", "KeyboardInterrupt"} : ReplExcept(kind)
    /\ UNCHANGED <<auxVars, program, httpLog, apiKey, connVars, stdin, outcome, queryVars>>

Next ==
    \/ MainTry
    \/ SseClientEntered
    \/ ClientSessionEntered
    \/ InitializeReturns
    \/ ListToolsReturns
    \/ ListResourcesReturns
    \/ ConnectRaises
    \/ InputReturns
    \/ InputInterrupted
    \/ InputEOF
    \/ ReplAfterQuery
    \/ HttpInputReturns
    \/ HttpToolReturns
    \/ HttpToolRaises
    \/ HttpInterruptInFlight
    \/ FirstCompletionReturns
    \/ ToolReturns
    \/ ToolRaises
    \/ FinalCompletionReturns
    \/ CompletionRaises
    \/ InterruptInFlight
    \/ MainFinally
    \/ AcloseExit
    \/ AcloseDone

Spec == Init /\ [][Next]_vars

\* ---------------------------------------------------------------- a caller of the methods
\* One MCPLLMClient object whose connect_to_server, process_query and cleanup
\* are called, one at a time and in any order, by a caller other than main that
\* catches what they raise.
InitApi ==
    /\ program = "llm"
    /\ httpLog = <<>>
    /\ pc = "idle"
    /\ apiKey \in ApiKeys
    /\ session = NoneVal
    /\ available_tools = <<>>
    /\ exit_stack = <<>>
    /\ acquired = [r \in Resources |-> 0]
    /\ released = [r \in Resources |-> 0]
    /\ cleanupRuns = 0
    /\ connectLog = <<>>
    /\ exc = NoneVal
    /\ prompts = 0
    /\ stdin = "open"
    /\ printed = [kind |-> "none", text |-> <<>>]
    /\ outcome = NoOutcome
    /\ replEnd = "running"
    /\ query = ""
    /\ messages = <<>>
    /\ final_text = <<>>
    /\ tool_calls = <<>>
    /\ message = NoMessage
    /\ final_message = NoMessage
    /\ idx = 0
    /\ completions = <<>>
    /\ toolLog = <<>>
    /\ sentTools = <<>>
    /\ served = <<>>
    /\ apiCalls = 0

\* the query the caller passes
ApiQueries == {"add 2 and 3"}

\* await client.connect_to_server(url)
ApiCallConnect ==
    /\ pc = "idle"
    /\ apiCalls < MaxApiCalls
    /\ apiCalls' = apiCalls + 1
    /\ connectLog' = <<>>
    /\ pc' = "await_sse_client"
    /\ UNCHANGED <<sentTools, served, program, httpLog, apiKey, exc, session,
                   available_tools, exit_stack, acquired, released, cleanupRuns,
                   replVars, queryVars>>

\* list_resources() returned: connect_to_server returns to the caller
ApiConnectReturns ==
    /\ pc = "await_list_resources"
    /\ connectLog' = Append(connectLog, "returned")
    /\ pc' = "idle"
    /\ UNCHANGED <<auxVars, program, httpLog, apiKey, exc, session, available_tools,
                   exit_stack, acquired, released, cleanupRuns, replVars, queryVars>>

\* an await of connect_to_server raises to the caller
ApiConnectRaises ==
    /\ pc \in ConnectAwaits
    /\ pc' = "idle"
    /\ UNCHANGED <<auxVars, program, httpLog, apiKey, exc, connVars, replVars, queryVars>>

\* await client.process_query(q)
ApiCallProcessQuery ==
    /\ pc = "idle"
    /\ apiCalls < MaxApiCalls
    /\ apiCalls' = apiCalls + 1
    /\ \E q \in ApiQueries : ProcessQueryCall(q)
    /\ UNCHANGED <<served, program, httpLog, apiKey, connVars>>

\* process_query has returned or raised to the caller; its locals are gone
ApiQueryDone ==
    /\ pc = "query_done"
    /\ pc' = "idle"
    /\ outcome' = NoOutcome
    /\ query' = ""
    /\ messages' = <<>>
    /\ message' = NoMessage
    /\ final_message' = NoMessage
    /\ final_text' = <<>>
    /\ tool_calls' = <<>>
    /\ idx' = 0
    /\ completions' = <<>>
    /\ toolLog' = <<>>
    /\ UNCHANGED <<auxVars, program, httpLog, apiKey, exc, connVars, prompts, stdin,
                   printed, replEnd>>

\* await client.cleanup()
ApiCallCleanup ==
    /\ pc = "idle"
    /\ apiCalls < MaxApiCalls
    /\ apiCalls' = apiCalls + 1
    /\ cleanupRuns' = cleanupRuns + 1
    /\ pc' = "aclose"
    /\ UNCHANGED <<sentTools, served, program, httpLog, apiKey, exc, session,
                   available_tools, exit_stack, acquired, released, connectLog,
                   replVars, queryVars>>

\* aclose() has nothing left to exit: cleanup returns, or raises what an exit
\* raised, to the caller
ApiCleanupDone ==
    /\ pc = "aclose"
    /\ exit_stack = <<>>
    /\ pc' = "idle"
    /\ exc' = NoneVal
    /\ UNCHANGED <<auxVars, program, httpLog, apiKey, connVars, replVars, queryVars>>

NextApi ==
    \/ ApiCallConnect
    \/ SseClientEntered
    \/ ClientSessionEntered
    \/ InitializeReturns
    \/ ListToolsReturns
    \/ ApiConnectReturns
    \/ ApiConnectRaises
    \/ ApiCallProcessQuery
    \/ FirstCompletionReturns
    \/ ToolReturns
    \/ ToolRaises
    \/ FinalCompletionReturns
    \/ CompletionRaises
    \/ ApiQueryDone
    \/ ApiCallCleanup
    \/ AcloseExit
    \/ ApiCleanupDone

SpecApi == InitApi /\ [][NextApi]_vars

\* ---------------------------------------------------------------- the server's tools
\* A number the tools compute, as a fraction in lowest terms with a positive
\* denominator; the operands of a call are whole numbers.
Abs(n) == IF n < 0 THEN 0 - n ELSE n

RECURSIVE GCD(_, _)
GCD(m, n) == IF n = 0 THEN m ELSE GCD(n, m % n)

Number(n, d) ==
    LET g == GCD(Abs(n), Abs(d))
        sign == IF d < 0 THEN 0 - 1 ELSE 1
    IN [num |-> (sign * n) \div g, den |-> (sign * d) \div g]

ToolReturned(value) ==
    [kind |-> "returned", value |-> <<value>>, err |-> NoneVal, msg |-> <<>>]
ToolRaised(kind, msg) ==
    [kind |-> "raised", value |-> <<>>, err |-> kind, msg |-> msg]

\* mutant: dividing by zero yields 0 instead of raising
calculate_ZeroQuotient(operation, a, b) ==
    IF operation = "add" THEN ToolReturned(Number(a + b, 1))
    ELSE IF operation = "subtract" THEN ToolReturned(Number(a - b, 1))
    ELSE IF operation = "multiply" THEN ToolReturned(Number(a * b, 1))
    ELSE IF operation = "divide"
    THEN IF b = 0
         THEN ToolReturned(Number(0, 1))
         ELSE ToolReturned(Number(a, b))
    ELSE ToolRaised("ValueError", <<"Unknown operation: ", operation>>)

\* async def calculate(operation, a, b)
calculate(operation, a, b) ==
    IF operation = "add" THEN ToolReturned(Number(a + b, 1))
    ELSE IF operation = "subtract" THEN ToolReturned(Number(a - b, 1))
    ELSE IF operation = "multiply" THEN ToolReturned(Number(a * b, 1))
    ELSE IF operation = "divide"
    THEN IF b = 0
         THEN ToolRaised("ValueError", <<"Cannot divide by zero">>)
         ELSE ToolReturned(Number(a, b))
    ELSE ToolRaised("ValueError", <<"Unknown operation: ", operation>>)

\* async def greet(name)
greet(name) == <<"Hello, ", name, "!">>

\* what a client may send as the arguments of the two tools
Operations == {"add", "subtract", "multiply", "divide", "Divide", "modulo"}
Operands == (0 - MaxOperand)..MaxOperand
Names == {"", "Bob"}

\* mcp.run('sse'): the server is up, no tool called yet
InitServer ==
    /\ program = "server"
    /\ httpLog = <<>>
    /\ pc = "serving"
    /\ apiKey = None_
    /\ session = NoneVal
    /\ available_tools = <<>>
    /\ exit_stack = <<>>
    /\ acquired = [r \in Resources |-> 0]
    /\ released = [r \in Resources |-> 0]
    /\ cleanupRuns = 0
    /\ connectLog = <<>>
    /\ exc = NoneVal
    /\ prompts = 0
    /\ stdin = "open"
    /\ printed = [kind |-> "none", text |-> <<>>]
    /\ outcome = NoOutcome
    /\ replEnd = "running"
    /\ query = ""
    /\ messages = <<>>
    /\ final_text = <<>>
    /\ tool_calls = <<>>
    /\ message = NoMessage
    /\ final_message = NoMessage
    /\ idx = 0
    /\ completions = <<>>
    /\ toolLog = <<>>
    /\ sentTools = <<>>
    /\ served = <<>>
    /\ apiCalls = 0

\* the server runs calculate for a client; `served` holds the latest tool call
\* and how it ended
ServerCalculate ==
    /\ pc = "serving"
    /\ \E operation \in Operations, a \in Operands, b \in Operands :
          served' = << [tool |-> "calculate", operation |-> operation, a |-> a, b |-> b,
                        name |-> "", out |-> calculate(operation, a, b)] >>
    /\ UNCHANGED <<sentTools, apiCalls, program, httpLog, pc, apiKey, exc, connVars,
                   replVars, queryVars>>

\* the server runs greet for a client
ServerGreet ==
    /\ pc = "serving"
    /\ \E name \in Names :
          served' = << [tool |-> "greet", operation |-> "", a |-> 0, b |-> 0,
                        name |-> name,
                        out |-> [kind |-> "returned", value |-> greet(name),
                                 err |-> NoneVal, msg |-> <<>>]] >>
    /\ UNCHANGED <<sentTools, apiCalls, program, httpLog, pc, apiKey, exc, connVars,
                   replVars, queryVars>>

NextServer ==
    \/ ServerCalculate
    \/ ServerGreet

SpecServer == InitServer /\ [][NextServer]_vars

\* ================================================================ properties
Awaiting == {"await_first", "await_tool", "await_final"}

\* the call_tool events of this query that start an execution
Calls == SelectSeq(toolLog, LAMBDA e : e.ev = "call")
Ends == SelectSeq(toolLog, LAMBDA e : e.ev # "call")

\* the first completion has returned to this process_query call
FirstAnswered == final_text # <<>>

\* C1 as stated: for a query whose first response carries exactly one tool call,
\* the transcript of the second completion request is system, user, assistant
\* (the first response with its tool calls), assistant (the echo), tool; and a
\* returned query made two completion requests and one call_tool.
C1_FirstResponseInTranscript ==
    /\ (Len(message.tool_calls) = 1 /\ Len(completions) = 2) =>
          LET m == completions[2].messages
          IN /\ Len(Calls) = 1
             /\ [i \in 1..Len(m) |-> m[i].role]
                   = <<"system", "user", "assistant", "assistant", "tool">>
             /\ m[3].tool_calls = message.tool_calls
    /\ (Len(message.tool_calls) = 1 /\ outcome.kind = "returned") =>
          Len(completions) = 2 /\ Len(Calls) = 1

\* C1 amended: for a query whose first response carries exactly one tool call,
\* the transcript of the second completion request has exactly four messages:
\* system, user (the query), assistant (the echo of the single call, without
\* content), tool (the result, with the call's id); the first response itself
\* is not in it. A returned query made two completion requests and one call_tool.
C1_SingleToolCallTranscript ==
    /\ (Len(message.tool_calls) = 1 /\ Len(completions) = 2) =>
          LET m == completions[2].messages
              tc == message.tool_calls[1]
          IN /\ Len(Calls) = 1
             /\ Len(m) = 4
             /\ m[1].role = "system" /\ m[1].content = <<SYSTEM_PROMPT>>
             /\ m[2].role = "user" /\ m[2].content = <<query>>
             /\ m[3].role = "assistant" /\ m[3].content = <<>>
             /\ Len(m[3].tool_calls) = 1 /\ m[3].tool_calls[1].id = tc.id
             /\ m[4].role = "tool" /\ m[4].tool_call_id = <<tc.id>>
             /\ m[4].tool_calls = <<>>
    /\ (Len(message.tool_calls) = 1 /\ outcome.kind = "returned") =>
          Len(completions) = 2 /\ Len(Calls) = 1

C1_Witness ==
    /\ pc = "query_done"
    /\ outcome.kind = "returned"
    /\ Len(message.tool_calls) = 1
    /\ message.content = <<"A">>
    /\ Len(completions) = 2

\* C2: when the first completion carries no tool calls (the list absent or
\* empty), process_query ends there: one completion request, no call_tool, and
\* the returned value is that completion's text, or the empty string without it.
C2_NoToolCalls ==
    (FirstAnswered /\ message.tool_calls = <<>>) =>
        /\ pc = "query_done"
        /\ outcome.kind = "returned"
        /\ Len(completions) = 1
        /\ toolLog = <<>>
        /\ outcome.value = IF message.content \in {<<>>, <<"">>} THEN <<>>
                           ELSE message.content

C2_Witness ==
    /\ pc = "query_done"
    /\ FirstAnswered
    /\ message.has_calls /\ message.tool_calls = <<>>
    /\ message.content = <<>>
    /\ outcome = Returned(<<>>)

\* C3: the call_tool events of one query alternate start, end, start, end, ...;
\* the k-th start is for the k-th tool call of the first response (its name and
\* parsed arguments), so the (k+1)-th starts only after the k-th has ended, and
\* at most one execution is in flight.
C3_ToolCallsInOrder ==
    /\ \A p \in 1..Len(toolLog) :
          LET e == toolLog[p]
              k == (p + 1) \div 2
          IN /\ e.idx = k
             /\ k <= Len(message.tool_calls)
             /\ e.name = message.tool_calls[k].function.name
             /\ e.args = json_loads(message.tool_calls[k].function.arguments)
             /\ (p % 2 = 1) = (e.ev = "call")
             /\ (e.ev = "raise" => p = Len(toolLog))
    /\ Len(Calls) - Len(Ends) \in {0, 1}
    /\ pc = "await_tool" => Len(Calls) - Len(Ends) = 1

C3_Witness ==
    /\ Len(toolLog) = 4
    /\ toolLog[1].name # toolLog[3].name
    /\ toolLog[4].ev = "return"

\* C4: when call_tool raises for the k-th tool call, process_query ends by
\* raising that error: no later tool call of the batch is started, no final
\* completion request is made, nothing is returned; interactive_mode then
\* prints the error.
C4_ToolFailureAborts ==
    /\ [](\A p \in 1..Len(toolLog) : toolLog[p].ev = "raise" =>
             /\ p = Len(toolLog)
             /\ pc = "query_done"
             /\ outcome = Raised("McpError")
             /\ Len(completions) = 1
             /\ final_message = NoMessage)
    /\ [][(pc = "query_done" /\ outcome = Raised("McpError")) =>
             /\ printed' = [kind |-> "error", text |-> <<"Error: ", "McpError">>]
             /\ pc' = "input"]_vars

C4_Witness ==
    /\ Len(toolLog) = 2
    /\ toolLog[2].ev = "raise"
    /\ Len(message.tool_calls) = 2
    /\ message.content = <<"A">>
    /\ pc = "query_done"

\* C5: with a session and an unset or empty credential, process_query returns
\* the explanatory string, raises nothing, and sends no completion request and
\* no call_tool.
C5_MissingCredential ==
    (session # NoneVal /\ apiKey \in {<<>>, <<"">>}) =>
        /\ pc \notin Awaiting
        /\ completions = <<>>
        /\ toolLog = <<>>
        /\ pc = "query_done" => outcome = Returned(<<KEY_ERROR>>)

C5_Witness ==
    /\ pc = "query_done"
    /\ session # NoneVal
    /\ apiKey = <<"">>
    /\ outcome = Returned(<<KEY_ERROR>>)

\* C6: one process_query call sends at most two completion requests and runs
\* at most one round of tool executions: the first request carries one function
\* spec per stored descriptor and tool_choice "auto", the second carries no tool
\* specs, and once the second has answered the call has returned, whatever tool
\* calls that answer carries, with only the first response's calls executed.
C6_OneToolRound ==
    /\ Len(completions) <= 2
    /\ Len(completions) >= 1 =>
          LET first == completions[1]
          IN /\ first.has_tools
             /\ first.tool_choice = "auto"
             /\ Len(first.tools) = Len(available_tools)
             /\ \A i \in 1..Len(first.tools) :
                   /\ first.tools[i].type = "function"
                   /\ first.tools[i].function.name = available_tools[i].name
                   /\ first.tools[i].function.parameters = available_tools[i].inputSchema
    /\ Len(completions) = 2 =>
          /\ ~completions[2].has_tools
          /\ completions[2].tools = <<>>
          /\ completions[2].tool_choice = NoneVal
    /\ Len(Calls) <= Len(message.tool_calls)
    /\ Len(final_text) = 2 =>
          /\ pc = "query_done"
          /\ outcome.kind = "returned"
          /\ Len(Calls) = Len(message.tool_calls)

C6_Witness ==
    /\ pc = "query_done"
    /\ Len(final_text) = 2
    /\ final_message.tool_calls # <<>>
    /\ Len(available_tools) = 2
    /\ Len(completions) = 2

\* a tool message of transcript m answers the call of the assistant message
\* right before it
TranscriptMatched(m) ==
    \A j \in 1..Len(m) :
        m[j].role = "tool" =>
            /\ j > 1
            /\ m[j - 1].role = "assistant"
            /\ Len(m[j - 1].tool_calls) = 1
            /\ m[j].tool_call_id = << m[j - 1].tool_calls[1].id >>

\* C7: in every transcript sent, and in the transcript being built, each tool
\* message carries the id of the tool call of the assistant message right before
\* it; the k-th executed call contributes an assistant message with exactly that
\* call (its id, its name, its arguments as a parsed mapping, re-serialised) and
\* then the tool message with the same id and str() of the result.
C7_ToolMessagesMatchCalls ==
    /\ TranscriptMatched(messages)
    /\ \A c \in 1..Len(completions) : TranscriptMatched(completions[c].messages)
    /\ FirstAnswered => Len(messages) = 2 + 2 * Len(tool_calls)
    /\ \A k \in 1..Len(tool_calls) :
          LET echo == messages[2 * k + 1]
              answer == messages[2 * k + 2]
              tc == message.tool_calls[k]
          IN /\ echo.role = "assistant"
             /\ Len(echo.tool_calls) = 1
             /\ echo.tool_calls[1].id = tc.id
             /\ echo.tool_calls[1].type = "function"
             /\ echo.tool_calls[1].function.name = tc.function.name
             /\ ~json_loads_raises(echo.tool_calls[1].function.arguments)
             /\ json_loads(echo.tool_calls[1].function.arguments)
                   = json_loads(tc.function.arguments)
             /\ answer.role = "tool"
             /\ answer.tool_call_id = << tc.id >>
             /\ answer.content = << Str(tool_calls[k].result) >>

C7_Witness ==
    /\ Len(completions) = 2
    /\ Len(completions[2].messages) = 6
    /\ completions[2].messages[5].tool_calls[1].function.arguments
          # message.tool_calls[2].function.arguments
    /\ completions[2].messages[4].tool_call_id # completions[2].messages[6].tool_call_id

\* the errors process_query raises
QueryErrors == {"RuntimeError", "APIError", "McpError", "JSONDecodeError"}

\* C8: an error of process_query (not connected, a failed completion request, a
\* failed call_tool, malformed tool arguments) is printed by interactive_mode,
\* which then calls input() again; when connect_to_server raised, input() is
\* never called, cleanup runs, and main ends with an exception.
C8_ErrorsCaughtAtRepl ==
    /\ [][(pc = "query_done" /\ outcome.kind = "raised" /\ outcome.err \in QueryErrors) =>
             /\ printed' = [kind |-> "error", text |-> <<"Error: ", outcome.err>>]
             /\ pc' = "input"
             /\ prompts' = prompts + 1
             /\ replEnd' = "running"
             /\ exc' = NoneVal]_vars
    /\ []((prompts = 0 /\ pc \in {"main_finally", "aclose", "exited"}) => exc # NoneVal)
    /\ []((prompts = 0 /\ pc = "exited") => cleanupRuns = 1)
    /\ [][(prompts = 0 /\ exc # NoneVal) => prompts' = 0]_vars

C8_Witness ==
    /\ pc = "input"
    /\ printed = [kind |-> "error", text |-> <<"Error: ", "JSONDecodeError">>]
    /\ replEnd = "running"
    /\ prompts = 2

\* C9 as stated: once the user has entered "exit", or input has reached
\* end-of-input, interactive_mode's loop has been left and input() is not
\* called again.
C9_LoopLeftOnExitOrEOF ==
    (replEnd = "exit" \/ stdin = "eof") => pc \in {"main_finally", "aclose", "exited"}

\* C10: cleanup runs at most once, and exactly once by the time main has ended;
\* each context connect_to_server entered is exited exactly once by then; and
\* once cleanup has started no session operation is issued.
C10_CleanupExactlyOnce ==
    /\ [](/\ cleanupRuns <= 1
          /\ \A r \in Resources : acquired[r] <= 1 /\ released[r] <= acquired[r])
    /\ [](pc = "exited" =>
             /\ cleanupRuns = 1
             /\ released = acquired
             /\ exit_stack = <<>>)
    /\ [](cleanupRuns >= 1 => pc \in {"aclose", "exited"})
    /\ [][cleanupRuns >= 1 =>
             (connectLog' = connectLog /\ toolLog' = toolLog /\ httpLog' = httpLog)]_vars

C10_Witness ==
    /\ pc = "exited"
    /\ replEnd = "escaped"
    /\ exc = "CancelledError"
    /\ released = [r \in Resources |-> 1]

\* C11: a process_query call made while no session exists (no connect has got
\* as far as creating one) raises the not-connected RuntimeError, with the
\* credential set or not, and makes no completion request and no call_tool.
C11_NotConnectedFirst ==
    (session = NoneVal) =>
        /\ pc \notin Awaiting
        /\ completions = <<>>
        /\ toolLog = <<>>
        /\ sentTools = <<>>
        /\ (pc = "query_done" => outcome = Raised("RuntimeError"))

C11_Witness ==
    /\ pc = "query_done"
    /\ session = NoneVal
    /\ Falsy(apiKey)
    /\ outcome = Raised("RuntimeError")
    /\ completions = <<>>

\* the session handle is live: the most recent connect_to_server returned and
\* the ClientSession it entered has not been exited
LiveHandle ==
    /\ connectLog # <<>>
    /\ connectLog[Len(connectLog)] = "returned"
    /\ exit_stack # <<>>
    /\ exit_stack[Len(exit_stack)] = "session"

\* C12 as stated: call_tool is awaited only on a live handle, and a
\* process_query call made without a live handle ends in the not-connected
\* RuntimeError.
C12_ToolCallsOnlyOnLiveHandle ==
    /\ (pc \in Awaiting => LiveHandle)
    /\ ((pc = "query_done" /\ ~LiveHandle) => outcome = Raised("RuntimeError"))

\* C13: the function-spec list of the first completion request has the
\* listing's length and order, its i-th entry being a "function" whose name,
\* description and parameters are the i-th descriptor's name, description and
\* inputSchema; and every later query of the connection, building the list
\* again from the same listing, sends the same list.
C13_CatalogMirrorsListing ==
    /\ [](completions # <<>> =>
             LET specs == completions[1].tools
             IN /\ completions[1].has_tools
                /\ Len(specs) = Len(available_tools)
                /\ \A i \in 1..Len(specs) :
                      /\ specs[i].type = "function"
                      /\ specs[i].function.name = available_tools[i].name
                      /\ specs[i].function.description = available_tools[i].description
                      /\ specs[i].function.parameters = available_tools[i].inputSchema)
    /\ [][sentTools # <<>> => sentTools' = sentTools]_vars

C13_Witness ==
    /\ pc = "await_first"
    /\ prompts = 2
    /\ available_tools = <<CalculateTool, GreetTool>>
    /\ sentTools = << completions[1].tools >>
    /\ completions[1].tools[1].function.name = "calculate"
    /\ completions[1].tools[2].function.parameters = "schema:name"

\* C14 as stated: the function specs of one completion request have pairwise
\* distinct names, whatever list_tools returned.
C14_DistinctToolNames ==
    \A k \in 1..Len(completions) :
        \A i, j \in 1..Len(completions[k].tools) :
            i # j => completions[k].tools[i].function.name
                        # completions[k].tools[j].function.name

\* C15: a process_query call that made a completion request returns the first
\* response's text, then the final response's text if a final request was
\* made, absent and empty texts left out, with one newline between two texts
\* and none otherwise.
C15_ReturnValue ==
    (pc = "query_done" /\ outcome.kind = "returned" /\ completions # <<>>) =>
        LET first == IF message.content = None_ THEN "" ELSE message.content[1]
            final == IF Len(completions) = 2 /\ final_message.content # None_
                     THEN final_message.content[1] ELSE ""
        IN outcome.value =
              IF first # "" /\ final # "" THEN <<first, "\n", final>>
              ELSE IF first # "" THEN <<first>>
              ELSE IF final # "" THEN <<final>>
              ELSE <<>>

C15_Witness ==
    /\ pc = "query_done"
    /\ message.content = Some("A")
    /\ final_message.content = Some("B")
    /\ outcome = Returned(<<"A", "\n", "B">>)

IsPrefix(s, t) == Len(s) <= Len(t) /\ SubSeq(t, 1, Len(s)) = s

\* C16: a process_query call that sends a request starts its transcript as
\* exactly system preamble, user query; until the call ends the transcript only
\* grows at its end; the transcript of every request the call has sent is a
\* prefix of the current one; and the transcript never holds anything before
\* the preamble and the query of the call in progress.
C16_TranscriptAppendOnly ==
    /\ [][(pc # "await_first" /\ pc' = "await_first") =>
             /\ Len(messages') = 2
             /\ messages'[1] = [role |-> "system", content |-> Some(SYSTEM_PROMPT),
                                tool_calls |-> <<>>, tool_call_id |-> None_]
             /\ messages'[2] = [role |-> "user", content |-> Some(query'),
                                tool_calls |-> <<>>, tool_call_id |-> None_]]_vars
    /\ [][(pc \in Awaiting) => (Len(messages) <= Len(messages')
                               /\ SubSeq(messages', 1, Len(messages)) = messages)]_vars
    /\ [](\A k \in 1..Len(completions) : IsPrefix(completions[k].messages, messages))
    /\ [](messages # <<>> =>
             /\ messages[1].role = "system"
             /\ messages[2].role = "user"
             /\ messages[2].content = Some(query)
             /\ \A k \in 3..Len(messages) : messages[k].role \in {"assistant", "tool"})

C16_Witness ==
    /\ pc = "await_final"
    /\ prompts = 2
    /\ Len(messages) = 6
    /\ messages[2].content = Some("")
    /\ Len(completions[1].messages) = 2

\* C17: only connect_to_server writes the stored descriptor list and the
\* session handle and issues session requests other than call_tool: no step of
\* interactive_mode or process_query, whatever the query's outcome, changes
\* available_tools or session or issues initialize, list_tools or
\* list_resources.
C17_CatalogWrittenByConnectOnly ==
    [][(pc \notin ConnectAwaits) =>
          /\ available_tools' = available_tools
          /\ session' = session
          /\ connectLog' = connectLog]_vars

C17_Witness ==
    /\ pc = "query_done"
    /\ prompts = 2
    /\ outcome.kind = "raised"
    /\ printed.kind = "response"
    /\ available_tools = <<GreetTool, CalculateTool>>
    /\ connectLog = <<"initialize", "list_tools", "list_resources">>

Interrupts == {"KeyboardInterrupt", "CancelledError"}

\* C18 as stated: a process_query call that has started ends as a returned
\* answer or as one of its own failures, never as an interrupt.
C18_QueryNeverCutShort ==
    pc = "query_done" => (outcome.kind = "returned" \/ outcome.err \in QueryErrors)

\* C18 amended: an interrupt is honoured while a query is in flight as well as
\* at the prompt. A started query ends as a returned answer, one of its own
\* failures, or an interrupt at the await it is suspended in; the interrupted
\* query sends nothing further, prints neither answer nor error, and
\* interactive_mode is left for main's cleanup without another input() call.
C18_InterruptEndsQuery ==
    /\ [](pc = "query_done" =>
             (outcome.kind = "returned" \/ outcome.err \in (QueryErrors \cup Interrupts)))
    /\ [][(pc \in Awaiting /\ pc' = "query_done" /\ outcome'.err \in Interrupts) =>
             UNCHANGED <<messages, completions, toolLog, httpLog, printed>>]_vars
    /\ [][(pc = "query_done" /\ outcome.err \in Interrupts) =>
             /\ pc' = "main_finally"
             /\ printed' = printed
             /\ prompts' = prompts
             /\ replEnd' = (IF outcome.err = "KeyboardInterrupt"
                            THEN "interrupt" ELSE "escaped")
             /\ exc' = (IF outcome.err = "KeyboardInterrupt"
                        THEN exc ELSE "CancelledError")]_vars
    /\ []((replEnd \in {"interrupt", "escaped"}) =>
             pc \in {"main_finally", "aclose", "exited"})

C18_Witness ==
    /\ pc = "query_done"
    /\ outcome = Raised("KeyboardInterrupt")
    /\ Len(Calls) = Len(Ends) + 1
    /\ Len(completions) = 1

\* C19: calculate ends in an error, with no value, for "divide" with b = 0 and
\* for every operation name other than add, subtract, multiply, divide; in every
\* other case it returns the sum, the difference, the product or the quotient
\* of a and b.
C19_CalculateDefinedOrError ==
    \A k \in 1..Len(served) :
        LET c == served[k]
        IN c.tool = "calculate" =>
             IF \/ c.operation \notin {"add", "subtract", "multiply", "divide"}
                \/ (c.operation = "divide" /\ c.b = 0)
             THEN c.out.kind = "raised" /\ c.out.value = <<>> /\ c.out.err = "ValueError"
             ELSE /\ c.out.kind = "returned"
                  /\ Len(c.out.value) = 1
                  /\ LET r == c.out.value[1]
                     IN /\ r.den > 0
                        /\ (c.operation = "add" => r.num = (c.a + c.b) * r.den)
                        /\ (c.operation = "subtract" => r.num = (c.a - c.b) * r.den)
                        /\ (c.operation = "multiply" => r.num = (c.a * c.b) * r.den)
                        /\ (c.operation = "divide" => r.num * c.b = c.a * r.den)

C19_Witness ==
    /\ served # <<>>
    /\ served[1].tool = "calculate"
    /\ served[1].operation = "divide"
    /\ served[1].a = 1
    /\ served[1].b = 0
    /\ served[1].out.kind = "raised"

\* C20: a resource is released only by cleanup, one at a time, and always the
\* one acquired last among those still held, a client session lying directly
\* above its transport; when cleanup ends, everything acquired so far, by
\* complete and by partly failed connects alike, has been released; and a
\* cleanup that finds nothing held releases nothing.
C20_ReleasedInReverseOrder ==
    /\ [][released' # released =>
             /\ pc = "aclose"
             /\ exit_stack # <<>>
             /\ released' = [released EXCEPT ![exit_stack[Len(exit_stack)]] = @ + 1]
             /\ exit_stack' = SubSeq(exit_stack, 1, Len(exit_stack) - 1)]_vars
    /\ [](\A i \in 1..Len(exit_stack) :
             exit_stack[i] = "session" => (i > 1 /\ exit_stack[i - 1] = "transport"))
    /\ [](/\ \A r \in Resources : released[r] <= acquired[r]
          /\ Len(exit_stack) = (acquired["transport"] - released["transport"])
                                 + (acquired["session"] - released["session"]))
    /\ [][(pc = "aclose" /\ pc' # "aclose") =>
             (released' = acquired' /\ exit_stack' = <<>>)]_vars
    /\ [][(pc # "aclose" /\ pc' = "aclose" /\ released = acquired) =>
             exit_stack' = <<>>]_vars

C20_Witness ==
    /\ pc = "aclose"
    /\ cleanupRuns = 2
    /\ exit_stack = <<>>
    /\ acquired = [transport |-> 1, session |-> 0]
    /\ released = acquired

====
